---- MODULE Spec2Model ----
(***************************************************************************)
(* A model of the request pipeline of hcp-terraform-mcp:                   *)
(*   - the sliding-window RateLimiter (both copies of it in the repository:*)
(*     hcp_terraform_mcp/client.py and tfc_mcp/client.py),                 *)
(*   - TerraformClient._make_request and the client operations built on it,*)
(*   - the two tool dispatchers (ToolHandlers.dispatch and the server's    *)
(*     call_tool).                                                         *)
(* Each subsystem has a specification of its own over the same variables.  *)
(***************************************************************************)
EXTENDS Integers, Sequences, FiniteSets, TLC

(***************************************************************************)
(* Bounds of the model.                                                    *)
(***************************************************************************)
NumCallers == 3
MaxRequestsBound == 2
MaxWindow == 2
MaxTime == 3

Callers == 1..NumCallers

\* No task: asyncio.Lock is unlocked.
NoCaller == 0

VARIABLES
    impl,            \* which copy of RateLimiter: "hcp" or "tfc"
    max_requests,    \* RateLimiter.max_requests
    window_seconds,  \* RateLimiter.window_seconds
    requests,        \* RateLimiter.requests: the permit timestamps
    lockHolder,      \* the task holding RateLimiter._lock, or NoCaller
    lockWaiters,     \* asyncio.Lock's FIFO of waiting tasks
    now,             \* the event loop's clock
    pc,              \* where each caller is in acquire()
    wakeAt,          \* when a sleeping caller's asyncio.sleep ends
    grants           \* history: the timestamp of every permit, in grant order

limiterVars == <<impl, max_requests, window_seconds, requests, lockHolder,
                 lockWaiters, now, pc, wakeAt, grants>>

VARIABLES
    cpc,        \* where the client operation is: idle, acquiring, permitted,
                \* in_flight, done
    call,       \* the operation called and its arguments
    request,    \* what the operation hands to _make_request
    permits,    \* history: permits acquired for this call
    sent,       \* history: HTTP requests handed to the transport for this call
    response,   \* what the transport gave back
    made,       \* how _make_request ended
    outcome     \* how the operation ended

clientVars == <<cpc, call, request, permits, sent, response, made, outcome>>

VARIABLES
    dpc,          \* where the tool call is: idle, awaiting_client, done
    dcall,        \* the tool call: entry point, tool name, arguments
    clientCall,   \* the client method the handler is awaiting
    clientCalls,  \* history: client methods entered for this tool call
    clientReply,  \* how the awaited client method ended
    dresult       \* what the entry point gave the host

dispatchVars == <<dpc, dcall, clientCall, clientCalls, clientReply, dresult>>

VARIABLES
    xpc,       \* where the attribute round trip is: idle, model, wire, read
    fields,    \* the in-process model: underscored field -> Optional value
    wire,      \* the attributes mapping on the wire
    decoded    \* the in-process model read back from the wire

codecVars == <<xpc, fields, wire, decoded>>

VARIABLES
    kpc,             \* where the server object is: unbuilt, idle, done
    enable_caching,  \* config.enable_caching of the server
    kcall,           \* the method called on the server, with key and data
    kresult,         \* what the method call gave its caller
    asked,           \* key -> what callers last handed to _set_cache, and when
    ktime            \* time.time()

cacheVars == <<kpc, enable_caching, kcall, kresult, asked, ktime>>

vars == <<limiterVars, clientVars, dispatchVars, codecVars, cacheVars>>

(***************************************************************************)
(* Values.  A Python Optional is a sequence of length at most one: None is *)
(* <<>> and a value x is <<x>>, so that None, "" and False stay apart.     *)
(***************************************************************************)
None == <<>>
Some(x) == <<x>>

\* Python truthiness of an Optional[str]: None and "" are falsy.
TruthyStr(v) == v # None /\ v[1] # ""

NoCall == [op |-> "none", args |-> <<>>]
NoRequest == [method |-> "none", path |-> <<>>, json |-> None, params |-> None]
NoResponse == [kind |-> "none"]
NoMessage == [prefix |-> "", status |-> None, details |-> <<>>, text |-> ""]
NoOutcome ==
    [kind |-> "none", exc |-> "", message |-> NoMessage, status_code |-> None,
     errors |-> <<>>, envelope |-> None, flag |-> None]

\* No client operation is under way.
ClientAtRest ==
    /\ cpc = "idle"
    /\ call = NoCall
    /\ request = NoRequest
    /\ permits = 0
    /\ sent = 0
    /\ response = NoResponse
    /\ made = NoOutcome
    /\ outcome = NoOutcome

NoToolCall == [via |-> "none", ready |-> FALSE, name |-> "", arguments |-> <<>>]
NoClientCall == [op |-> "none", subject |-> None, passed |-> <<>>]
NoResult == [kind |-> "none", head |-> "", subject |-> None, exc |-> ""]

\* No tool call is under way.
DispatchAtRest ==
    /\ dpc = "idle"
    /\ dcall = NoToolCall
    /\ clientCall = NoClientCall
    /\ clientCalls = 0
    /\ clientReply = NoOutcome
    /\ dresult = NoResult

\* No attribute round trip is under way.
CodecAtRest ==
    /\ xpc = "idle"
    /\ fields = <<>>
    /\ wire = <<>>
    /\ decoded = <<>>

\* No server object has been built.
CacheKeys == {"key1", "key2"}
NoMethodCall == [name |-> "none", key |-> "", data |-> ""]
NoMethodResult == [kind |-> "none", exc |-> "", data |-> None]
CacheAtRest ==
    /\ kpc = "unbuilt"
    /\ enable_caching = FALSE
    /\ kcall = NoMethodCall
    /\ kresult = NoMethodResult
    /\ asked = [k \in CacheKeys |-> None]
    /\ ktime = 0

(***************************************************************************)
(* RateLimiter                                                             *)
(***************************************************************************)

\* An eviction that would keep every timestamp.
EvictNothing(reqs, t) == reqs

\* self.requests = [t for t in self.requests if now - t < self.window_seconds]
Evict(reqs, t) == SelectSeq(reqs, LAMBDA r : t - r < window_seconds)

\* A capacity check that lets one permit too many through.
HasCapacityOffByOne(reqs) == Len(reqs) <= max_requests

\* len(self.requests) < self.max_requests
HasCapacity(reqs) == Len(reqs) < max_requests

\* sleep_time = self.window_seconds - (now - self.requests[0])
SleepTime(reqs, t) == window_seconds - (t - reqs[1])

\* The caller leaves "async with self._lock" with a permit appended.
Grant(c, kept) ==
    /\ requests' = Append(kept, now)
    /\ grants' = Append(grants, now)
    /\ pc' = [pc EXCEPT ![c] = "done"]
    /\ lockHolder' = NoCaller
    /\ UNCHANGED wakeAt

\* self.requests[0] on an empty list: IndexError leaves "async with", which
\* releases the lock.
RaiseIndexError(c, kept) ==
    /\ requests' = kept
    /\ pc' = [pc EXCEPT ![c] = "raised"]
    /\ lockHolder' = NoCaller
    /\ UNCHANGED <<grants, wakeAt>>

\* await asyncio.sleep(d), the lock still held.
Sleep(c, kept, d) ==
    /\ requests' = kept
    /\ pc' = [pc EXCEPT ![c] = "sleeping"]
    /\ wakeAt' = [wakeAt EXCEPT ![c] = now + d]
    /\ lockHolder' = c
    /\ UNCHANGED grants

\* hcp_terraform_mcp: one iteration of "while True", run with the lock held.
\* A non-positive sleep_time loops again at once, which is a sleep of 0 here.
HcpBody(c) ==
    LET kept == Evict(requests, now) IN
    IF HasCapacity(kept) THEN Grant(c, kept)
    ELSE IF kept = <<>> THEN RaiseIndexError(c, kept)
    ELSE IF SleepTime(kept, now) > 0 THEN Sleep(c, kept, SleepTime(kept, now))
    ELSE Sleep(c, kept, 0)

\* tfc_mcp: the body up to the sleep; what follows the sleep is the recursive
\* self.acquire() of SleepWake.
TfcBody(c) ==
    LET kept == Evict(requests, now) IN
    IF Len(kept) >= max_requests
    THEN IF kept = <<>> THEN RaiseIndexError(c, kept)
         ELSE IF SleepTime(kept, now) > 0
              THEN Sleep(c, kept, SleepTime(kept, now))
              ELSE Grant(c, kept)
    ELSE Grant(c, kept)

Body(c) == IF impl = "hcp" THEN HcpBody(c) ELSE TfcBody(c)

\* An acquire() whose body would run without taking the lock.
EnterAcquireUnlocked(c) ==
    /\ Body(c)
    /\ UNCHANGED lockWaiters

\* "async with self._lock": asyncio.Lock.acquire takes a free lock with no
\* waiter without suspending, and the body runs on; otherwise the task queues.
EnterAcquire(c) ==
    IF lockHolder = NoCaller /\ lockWaiters = <<>>
    THEN /\ Body(c)
         /\ UNCHANGED lockWaiters
    ELSE /\ pc' = [pc EXCEPT ![c] = "wait_lock"]
         /\ lockWaiters' = Append(lockWaiters, c)
         /\ UNCHANGED <<requests, lockHolder, wakeAt, grants>>

\* A task calls acquire().
Acquire(c) ==
    /\ pc[c] = "idle"
    /\ EnterAcquire(c)
    /\ UNCHANGED <<impl, max_requests, window_seconds, now, clientVars, dispatchVars, codecVars, cacheVars>>

\* Lock.release() woke the first waiter; it takes the lock and runs the body.
LockWake(c) ==
    /\ pc[c] = "wait_lock"
    /\ lockHolder = NoCaller
    /\ lockWaiters # <<>>
    /\ Head(lockWaiters) = c
    /\ lockWaiters' = Tail(lockWaiters)
    /\ Body(c)
    /\ UNCHANGED <<impl, max_requests, window_seconds, now, clientVars, dispatchVars, codecVars, cacheVars>>

\* An acquire() that would append as soon as its sleep ends.
SleepWakeGrants(c) ==
    /\ pc[c] = "sleeping"
    /\ now >= wakeAt[c]
    /\ Grant(c, requests)
    /\ UNCHANGED <<impl, max_requests, window_seconds, now, lockWaiters,
                   clientVars, dispatchVars, codecVars, cacheVars>>

\* asyncio.sleep returns. hcp loops: the next iteration runs with the lock
\* still held. tfc calls self.acquire() again, from inside "async with".
SleepWake(c) ==
    /\ pc[c] = "sleeping"
    /\ now >= wakeAt[c]
    /\ IF impl = "hcp"
       THEN /\ HcpBody(c)
            /\ UNCHANGED lockWaiters
       ELSE EnterAcquire(c)
    /\ UNCHANGED <<impl, max_requests, window_seconds, now, clientVars, dispatchVars, codecVars, cacheVars>>

\* The clock advances. Past MaxTime it advances only while a sleeper still
\* needs it, which keeps the state space finite without stopping time under
\* a caller that waits for it.
Tick ==
    /\ \/ now < MaxTime
       \/ \E c \in Callers : pc[c] = "sleeping" /\ wakeAt[c] > now
    /\ now' = now + 1
    /\ UNCHANGED <<impl, max_requests, window_seconds, requests, lockHolder,
                   lockWaiters, pc, wakeAt, grants, clientVars,
                   dispatchVars, codecVars, cacheVars>>

\* RateLimiter.__init__ with any configuration the constructor accepts.
InitLimiter ==
    /\ impl \in {"hcp", "tfc"}
    /\ max_requests \in 0..MaxRequestsBound
    /\ window_seconds \in 1..MaxWindow
    /\ requests = <<>>
    /\ lockHolder = NoCaller
    /\ lockWaiters = <<>>
    /\ now = 0
    /\ pc = [c \in Callers |-> "idle"]
    /\ wakeAt = [c \in Callers |-> 0]
    /\ grants = <<>>
    /\ ClientAtRest
    /\ DispatchAtRest
    /\ CodecAtRest
    /\ CacheAtRest

NextLimiter ==
    \/ \E c \in Callers : Acquire(c)
    \/ \E c \in Callers : LockWake(c)
    \/ \E c \in Callers : SleepWake(c)
    \/ Tick

SpecLimiter == InitLimiter /\ [][NextLimiter]_vars

\* The event loop runs every ready task and its clock advances; nothing
\* obliges a task to call acquire().
FairSpecLimiter ==
    /\ SpecLimiter
    /\ WF_vars(Tick)
    /\ \A c \in Callers : WF_vars(LockWake(c)) /\ WF_vars(SleepWake(c))

\* task.cancel() on a task suspended in acquire(): CancelledError is raised
\* at the await. A task waiting for the lock leaves asyncio.Lock's queue; a
\* task suspended inside "async with self._lock" (in asyncio.sleep, or, in
\* tfc_mcp, in the nested acquire() waiting for the lock it holds) leaves
\* the block, which releases the lock. Nothing is appended.
Cancel(c) ==
    /\ pc[c] \in {"wait_lock", "sleeping"}
    /\ pc' = [pc EXCEPT ![c] = "cancelled"]
    /\ lockWaiters' = SelectSeq(lockWaiters, LAMBDA w : w # c)
    /\ lockHolder' = IF lockHolder = c THEN NoCaller ELSE lockHolder
    /\ UNCHANGED <<impl, max_requests, window_seconds, requests, now, wakeAt,
                   grants, clientVars, dispatchVars, codecVars, cacheVars>>

NextCancelling ==
    \/ NextLimiter
    \/ \E c \in Callers : Cancel(c)

SpecCancelling == InitLimiter /\ [][NextCancelling]_vars

\* The event loop runs every ready task and its clock advances; nothing
\* obliges anyone to cancel a task.
FairSpecCancelling ==
    /\ SpecCancelling
    /\ WF_vars(Tick)
    /\ \A c \in Callers : WF_vars(LockWake(c)) /\ WF_vars(SleepWake(c))

\* A _make_request that would keep the limiter's lock for its HTTP call.
RequestGoesOutUnderLock(c) ==
    /\ pc[c] = "done"
    /\ lockHolder = NoCaller
    /\ lockHolder' = c
    /\ pc' = [pc EXCEPT ![c] = "in_flight"]
    /\ UNCHANGED <<impl, max_requests, window_seconds, requests, lockWaiters,
                   now, wakeAt, grants, clientVars, dispatchVars, codecVars,
                   cacheVars>>

\* _make_request after "await self.rate_limiter.acquire()" has returned:
\* the task awaits self._client.request(...).
RequestGoesOut(c) ==
    /\ pc[c] = "done"
    /\ pc' = [pc EXCEPT ![c] = "in_flight"]
    /\ UNCHANGED <<impl, max_requests, window_seconds, requests, lockHolder,
                   lockWaiters, now, wakeAt, grants, clientVars, dispatchVars,
                   codecVars, cacheVars>>

\* The transport answers, or fails: the task's _make_request ends.
RequestEnds(c) ==
    /\ pc[c] = "in_flight"
    /\ pc' = [pc EXCEPT ![c] = "finished"]
    /\ UNCHANGED <<impl, max_requests, window_seconds, requests, lockHolder,
                   lockWaiters, now, wakeAt, grants, clientVars, dispatchVars,
                   codecVars, cacheVars>>

\* Concurrent client operations over one RateLimiter.
NextConcurrent ==
    \/ NextLimiter
    \/ \E c \in Callers : RequestGoesOut(c)
    \/ \E c \in Callers : RequestEnds(c)

SpecConcurrent == InitLimiter /\ [][NextConcurrent]_vars

\* C1: at most max_requests permits within any trailing window: of any
\* max_requests + 1 consecutive grants the last is at least window_seconds
\* after the first.
C1_WindowBound ==
    \A i \in 1..Len(grants) :
        i + max_requests <= Len(grants)
            => grants[i + max_requests] - grants[i] >= window_seconds

\* C1 witness: a limiter with N >= 1 has granted N + 1 permits, the last one
\* to a caller that had to wait.
C1_Witness ==
    /\ max_requests >= 1
    /\ Len(grants) = max_requests + 1
    /\ \E c \in Callers : pc[c] = "done" /\ wakeAt[c] > 0

\* C2: every acquire() that had to wait is eventually granted.
C2_EveryAcquireReturns ==
    \A c \in Callers : (pc[c] \in {"wait_lock", "sleeping"}) ~> (pc[c] = "done")

\* The permits granted within the trailing window, by the history of grants.
PermitsInWindow ==
    Cardinality({i \in 1..Len(grants) : now - grants[i] < window_seconds})

C25_AcquireNeverRaises == \A c \in Callers : pc[c] # "raised"

\* C28: a caller that had to wait in acquire(), for the lock or in a sleep,
\* is granted only by a fresh evaluation made after the wait: at its grant
\* the sleep has ended, the expired timestamps are evicted, fewer than
\* max_requests permits lie in the window, and the timestamp recorded is the
\* clock reading of that moment, which for a caller that slept is later than
\* the time its acquire() began.
C28_GrantAfterWaitIsReevaluated ==
    [][\A c \in Callers :
          (pc[c] \in {"wait_lock", "sleeping"} /\ pc'[c] = "done")
              => (/\ grants' = Append(grants, now)
                  /\ PermitsInWindow < max_requests
                  /\ requests' # <<>>
                  /\ requests'[Len(requests')] = now
                  /\ \A i \in 1..Len(requests') :
                        now - requests'[i] < window_seconds
                  /\ Len(requests') <= max_requests
                  /\ pc[c] = "sleeping" => (wakeAt[c] > 0 /\ now >= wakeAt[c]))]_vars

\* A caller that slept holding the lock was granted, with the oldest permit
\* evicted at its grant.
C28_Witness ==
    /\ impl = "hcp"
    /\ max_requests = 1
    /\ Len(grants) = 2
    /\ requests = <<grants[2]>>
    /\ \E c \in Callers : pc[c] = "done" /\ wakeAt[c] = grants[2] /\ wakeAt[c] > 0

\* C27: the client serializes concurrent operations only inside the rate
\* limiter: an operation whose HTTP request is in flight neither holds the
\* limiter's lock nor waits for it, and an operation that has its permit
\* can send whatever the other operations are doing, so that granted
\* operations can have their requests in flight at the same time.
C27_NoLockWhileInFlight ==
    \A c \in Callers :
        /\ pc[c] \in {"done", "in_flight"} =>
              /\ lockHolder # c
              /\ \A i \in 1..Len(lockWaiters) : lockWaiters[i] # c
        /\ pc[c] = "done" => ENABLED RequestGoesOut(c)

\* Two requests are in flight while a third operation sleeps holding the
\* limiter's lock.
C27_Witness ==
    /\ Cardinality({c \in Callers : pc[c] = "in_flight"}) = 2
    /\ \E c \in Callers : pc[c] = "sleeping" /\ lockHolder = c

\* C29: in a RateLimiter with max_requests >= 1 the timestamp sequence
\* always holds at most max_requests entries in non-decreasing order, the
\* oldest first, and every step that changes it is a step of the task that
\* holds the lock: of the task that held it before the step, or, the lock
\* being free, of the task that takes it in the step.
C29_TimestampsBoundedOrderedLocked ==
    /\ [](max_requests >= 1 =>
            /\ Len(requests) <= max_requests
            /\ \A i \in 1..(Len(requests) - 1) : requests[i] <= requests[i + 1])
    /\ [][requests' # requests =>
            \E c \in Callers :
                /\ pc'[c] # pc[c]
                /\ lockHolder \in {NoCaller, c}
                /\ lockHolder = NoCaller =>
                      (lockWaiters = <<>> \/ Head(lockWaiters) = c)]_vars

\* The window is full with permits of two different times and a caller
\* sleeps holding the lock.
C29_Witness ==
    /\ max_requests = 2
    /\ Len(requests) = 2
    /\ requests[1] < requests[2]
    /\ \E c \in Callers : pc[c] = "sleeping" /\ lockHolder = c

\* A cancelled task holds no lock and waits for none, and has no permit:
\* every permit recorded belongs to a task whose acquire() returned.
CancelledHoldNothing ==
    \A c \in Callers :
        pc[c] = "cancelled" =>
            /\ lockHolder # c
            /\ \A i \in 1..Len(lockWaiters) : lockWaiters[i] # c
            /\ Len(grants) = Cardinality({d \in Callers : pc[d] = "done"})

\* The timestamp sequence holds permits that were granted, oldest first.
TimestampsConsistent ==
    /\ \A i \in 1..Len(requests) : \E j \in 1..Len(grants) : requests[i] = grants[j]
    /\ \A i \in 1..(Len(requests) - 1) : requests[i] <= requests[i + 1]

\* C23: cancelling a task suspended inside acquire() releases the
\* limiter's lock and records no permit for the task, the timestamp
\* sequence stays consistent, and every other caller can still acquire:
\* once a task was cancelled, a caller waiting in acquire() is eventually
\* granted unless it is cancelled itself.
C23_CancelLeavesLimiterUsable ==
    /\ [](CancelledHoldNothing /\ TimestampsConsistent)
    /\ \A c \in Callers, d \in Callers :
          (pc[c] = "cancelled" /\ pc[d] \in {"wait_lock", "sleeping"})
              ~> (pc[d] \in {"done", "cancelled"})

(***************************************************************************)
(* TerraformClient: responses and their classification (_make_request)     *)
(***************************************************************************)
Organization == "org"
DefaultMaxRequests == 30
DefaultWindowSeconds == 1
ErrorStatusFloor == 400
MaxErrors == 2

Statuses == {200, 204, 302, 400, 401}

\* A JsonApiError: title and detail are Optional[str], any may be absent.
\* The entries are "T: D", "T: E", and entries that lack the title, have an
\* empty title, lack the detail, or lack both.
ErrorEntries ==
    {e \in [title : {None, Some(""), Some("T")},
            detail : {None, Some("D"), Some("E")}] :
        \/ e.title = Some("T")
        \/ e.detail = Some("D")
        \/ e.title = None /\ e.detail = None}
ErrorLists == UNION {[1..n -> ErrorEntries] : n \in 0..MaxErrors}

\* A response body: not JSON at all; JSON that is no object (an array, a
\* string, a number, null); a JSON object that JsonApiResponse rejects; a
\* JSON object that JsonApiResponse accepts, with its data (none, one
\* resource, a list of resources, the empty list) or its errors.
Bodies ==
    {[kind |-> k, data |-> "absent", errors |-> None] :
        k \in {"malformed", "non_object", "bad_shape"}}
    \cup
    {[kind |-> "envelope", data |-> d, errors |-> None] :
        d \in {"absent", "single", "list", "empty_list"}}
    \cup
    {[kind |-> "envelope", data |-> "absent", errors |-> Some(l)] :
        l \in ErrorLists}

Responses == [kind : {"response"}, status : Statuses, body : Bodies]

Raised(exc, message, status_code, errors) ==
    [kind |-> "raise", exc |-> exc, message |-> message,
     status_code |-> status_code, errors |-> errors, envelope |-> None,
     flag |-> None]

Returned(envelope) ==
    [kind |-> "return", exc |-> "", message |-> NoMessage, status_code |-> None,
     errors |-> <<>>, envelope |-> Some(envelope), flag |-> None]

ReturnedBool(b) ==
    [kind |-> "return", exc |-> "", message |-> NoMessage, status_code |-> None,
     errors |-> <<>>, envelope |-> None, flag |-> Some(b)]

\* TerraformApiError.__init__: self.errors = errors or []
TerraformApiError(message, status_code, errors) ==
    Raised("TerraformApiError", message, status_code,
           IF errors = None THEN <<>> ELSE errors[1])

\* response.json() and JsonApiResponse(**response_data): what they raise.
\* json() raises ValueError on text that is not JSON; ** on a value that is
\* no mapping raises TypeError; pydantic raises ValidationError.
ParseRaises(body) ==
    CASE body.kind = "malformed" -> "ValueError"
      [] body.kind = "non_object" -> "TypeError"
      [] body.kind = "bad_shape" -> "ValidationError"
      [] OTHER -> "nothing"

\* except (ValueError, ValidationError)
ParseErrorCaught(exc) == exc \in {"ValueError", "ValidationError"}

\* response.status_code >= 400
IsErrorStatus(status) == status >= ErrorStatusFloor

\* A composition that would stop at the first entry that has both.
ErrorDetailsOfFirst(errs) ==
    LET both == SelectSeq(errs, LAMBDA e : TruthyStr(e.title) /\ TruthyStr(e.detail))
    IN [i \in 1..(IF both = <<>> THEN 0 ELSE 1) |->
            <<both[i].title[1], both[i].detail[1]>>]

\* The "<title>: <detail>" parts, in order, of the entries that have both.
ErrorDetails(errs) ==
    LET both == SelectSeq(errs, LAMBDA e : TruthyStr(e.title) /\ TruthyStr(e.detail))
    IN [i \in 1..Len(both) |-> <<both[i].title[1], both[i].detail[1]>>]

\* f"API request failed with status {status}" and, if any, ": " + the parts
\* joined by "; ".
ApiErrorMessage(status, errors) ==
    [prefix |-> "API request failed with status", status |-> Some(status),
     details |-> IF errors # None /\ errors[1] # <<>>
                 THEN ErrorDetails(errors[1]) ELSE <<>>,
     text |-> ""]

\* What self._client.request raises when no HTTP status is obtained:
\* httpx.ConnectError (connection refused, DNS failure, TLS failure) or,
\* after the client's timeout of 30 seconds, a httpx.TimeoutException.
TransportErrors == {"ConnectError", "ReadTimeout"}
RequestFailure(cause) == [kind |-> "request_error", cause |-> cause]

\* An except clause that would let the timeouts pass.
IsRequestErrorButTimeout(cause) == cause = "ConnectError"

\* except httpx.RequestError: every transport error of httpx, the timeouts
\* included, is a RequestError.
IsRequestError(cause) == cause \in TransportErrors

\* _make_request from the transport's answer on.
Classify(resp) ==
    IF resp.kind = "request_error"
    THEN IF IsRequestError(resp.cause)
         THEN TerraformApiError(
                  [prefix |-> "Request failed", status |-> None,
                   details |-> <<>>, text |-> resp.cause],
                  None, None)
         ELSE Raised(resp.cause, NoMessage, None, <<>>)
    ELSE IF ParseRaises(resp.body) # "nothing"
    THEN IF ParseErrorCaught(ParseRaises(resp.body))
         THEN TerraformApiError(
                  [prefix |-> "Invalid JSON response", status |-> None,
                   details |-> <<>>, text |-> ""],
                  Some(resp.status), None)
         ELSE Raised(ParseRaises(resp.body), NoMessage, None, <<>>)
    ELSE IF IsErrorStatus(resp.status)
    THEN TerraformApiError(ApiErrorMessage(resp.status, resp.body.errors),
                           Some(resp.status), resp.body.errors)
    ELSE Returned(resp.body)

\* health_check: True if get() returns, False on TerraformApiError; any
\* other exception passes through. Every other operation ends as
\* _make_request does.
OperationOutcome(op, result) ==
    IF op = "health_check"
    THEN IF result.kind = "return" THEN ReturnedBool(TRUE)
         ELSE IF result.exc = "TerraformApiError" THEN ReturnedBool(FALSE)
         ELSE result
    ELSE result

(***************************************************************************)
(* TerraformClient: the operations                                         *)
(***************************************************************************)
\* Argument values the operations are called with.
StrArgs == {None, Some(""), Some("v")}
FilterArgs == {None, Some("v")}
Ids == {"id-1"}

\* Field names are sequences of pieces, "_" and "-" being pieces of their own.
K_name == <<"name">>
K_description == <<"description">>
K_auto_apply == <<"auto", "_", "apply">>

\* key.replace("_", "-")
Hyphenate(key) == [i \in 1..Len(key) |-> IF key[i] = "_" THEN "-" ELSE key[i]]

\* get_organization_endpoint: f"{base}/{path}".rstrip("/")
OrgEndpoint(path) ==
    IF path = "" THEN <<"organizations", Organization>>
    ELSE <<"organizations", Organization, path>>

\* An update that is never rejected.
NoAttributesNever(attributes) == FALSE

\* "if not attributes": the attributes dict is empty.
NoAttributes(attributes) == DOMAIN attributes = {}

\* update_project: name and description enter the attributes if truthy.
UpdateProjectAttributes(name, description) ==
    LET keys == {k \in {K_name, K_description} :
                    TruthyStr(IF k = K_name THEN name ELSE description)}
    IN [k \in keys |-> IF k = K_name THEN name[1] ELSE description[1]]

\* update_workspace: every keyword that is not None enters the attributes
\* under its hyphenated name.
UpdateWorkspaceAttributes(kwargs) ==
    LET given == {k \in DOMAIN kwargs : kwargs[k] # None}
    IN [wk \in {Hyphenate(k) : k \in given} |->
            kwargs[CHOOSE k \in given : Hyphenate(k) = wk][1]]

\* create_project: name always, description if truthy.
CreateProjectAttributes(name, description) ==
    LET keys == {K_name} \cup
                (IF TruthyStr(description) THEN {K_description} ELSE {})
    IN [k \in keys |-> IF k = K_name THEN name ELSE description[1]]

\* The params dict of the list operations: include and search if truthy.
ListParams(include, search) ==
    LET keys == {k \in {"include", "search"} :
                    TruthyStr(IF k = "include" THEN include ELSE search)}
    IN [k \in keys |-> IF k = "include" THEN include[1] ELSE search[1]]

\* A list_runs that takes "no scope" for the organization's.
ListRunsScopeDefaultsToOrganization(workspace_id, organization_runs) ==
    IF organization_runs \/ ~TruthyStr(workspace_id) THEN "organization"
    ELSE "workspace"

\* list_runs: the if / elif / else that picks the endpoint.
ListRunsScope(workspace_id, organization_runs) ==
    IF organization_runs THEN "organization"
    ELSE IF TruthyStr(workspace_id) THEN "workspace"
    ELSE "none"

\* The keyword arguments update_workspace is called with: each key absent,
\* None or a value.
WorkspaceKwargs ==
    {[k \in (IF n = None THEN {} ELSE {K_name}) \cup
            (IF a = None THEN {} ELSE {K_auto_apply}) |->
        IF k = K_name THEN n[1] ELSE a[1]] :
        n \in {None} \cup {Some(v) : v \in StrArgs},
        a \in {None} \cup {Some(v) : v \in {None, Some(FALSE), Some(TRUE)}}}

\* Optional[bool] arguments.
BoolArgs == {None, Some(FALSE), Some(TRUE)}

\* Wire names the client writes literally, and a keyword left to **kwargs.
W_auto_apply == <<"auto", "-", "apply">>
W_execution_mode == <<"execution", "-", "mode">>
W_terraform_version == <<"terraform", "-", "version">>
W_working_directory == <<"working", "-", "directory">>
W_message == <<"message">>
W_is_destroy == <<"is", "-", "destroy">>
W_refresh == <<"refresh">>
W_refresh_only == <<"refresh", "-", "only">>
W_replace_addrs == <<"replace", "-", "addrs">>
W_target_addrs == <<"target", "-", "addrs">>
W_plan_only == <<"plan", "-", "only">>
K_queue_all_runs == <<"queue", "_", "all", "_", "runs">>

\* attributes[key] = value under an "if": the one-entry dict or nothing.
Entry(cond, key, value) == IF cond THEN key :> value ELSE <<>>

\* "if value:" for a string, "if value is not None:" for a bool.
StrEntry(key, v) == Entry(TruthyStr(v), key, IF v = None THEN "" ELSE v[1])
BoolEntry(key, v) == Entry(v # None, key, IF v = None THEN FALSE ELSE v[1])

\* The **kwargs of create_workspace and create_run: one more keyword,
\* absent, None or a value.
ExtraKwargs ==
    {[k \in (IF q = None THEN {} ELSE {K_queue_all_runs}) |-> q[1]] :
        q \in {None} \cup {Some(v) : v \in {None, Some(TRUE)}}}

\* "for key, value in kwargs.items()": the loop create_workspace and
\* create_run share with update_workspace; it runs last, so its keys win.
KwargsAttributes(kwargs) == UpdateWorkspaceAttributes(kwargs)

\* create_workspace: the attributes dict.
CreateWorkspaceAttributes(a) ==
    KwargsAttributes(a.kwargs)
    @@ (K_name :> a.name)
    @@ StrEntry(K_description, a.description)
    @@ BoolEntry(W_auto_apply, a.auto_apply)
    @@ StrEntry(W_execution_mode, a.execution_mode)
    @@ StrEntry(W_terraform_version, a.terraform_version)
    @@ StrEntry(W_working_directory, a.working_directory)

\* create_run: the attributes dict. replace_addrs and target_addrs are
\* lists, taken if not empty.
CreateRunAttributes(a) ==
    KwargsAttributes(a.kwargs)
    @@ StrEntry(W_message, a.message)
    @@ BoolEntry(W_is_destroy, a.is_destroy)
    @@ BoolEntry(W_refresh, a.refresh)
    @@ BoolEntry(W_refresh_only, a.refresh_only)
    @@ Entry(a.replace_addrs # None /\ a.replace_addrs[1] # <<>>,
             W_replace_addrs, IF a.replace_addrs = None THEN <<>> ELSE a.replace_addrs[1])
    @@ Entry(a.target_addrs # None /\ a.target_addrs[1] # <<>>,
             W_target_addrs, IF a.target_addrs = None THEN <<>> ELSE a.target_addrs[1])
    @@ BoolEntry(W_plan_only, a.plan_only)

\* A create_workspace that never relates the workspace to a project.
HasProjectNever(project_id) == FALSE

\* "if project_id:": None and "" give no relationship.
HasProject(project_id) == TruthyStr(project_id)

\* {"data": {"type": ..., "attributes": ..., "relationships":
\*     {relation: {"data": {"type": target_type, "id": id}}}}}
RelatedDocument(type, attributes, relation, target_type, id) ==
    [type |-> type, attributes |-> attributes,
     relationships |-> (relation :> [type |-> target_type, id |-> id])]

\* The optional arguments of a call that are given.
Given(a, optional) == {f \in optional : a[f] # None}

\* The calls of create_workspace the model makes: any project_id, and at
\* most one of the other optional arguments.
WorkspaceCreations ==
    {a \in [name : {"v"}, project_id : StrArgs, description : FilterArgs,
            auto_apply : BoolArgs, execution_mode : FilterArgs,
            terraform_version : FilterArgs, working_directory : FilterArgs,
            kwargs : ExtraKwargs] :
        Cardinality(Given(a, {"description", "auto_apply", "execution_mode",
                              "terraform_version", "working_directory",
                              "kwargs"})) <= 1}

\* The calls of create_run the model makes: at most one optional argument.
RunCreations ==
    {a \in [workspace_id : Ids, message : FilterArgs, is_destroy : BoolArgs,
            refresh : BoolArgs, refresh_only : BoolArgs,
            replace_addrs : {None, Some(<<"addr">>)},
            target_addrs : {None, Some(<<"addr">>)},
            plan_only : BoolArgs, kwargs : ExtraKwargs] :
        Cardinality(Given(a, {"message", "is_destroy", "refresh", "refresh_only",
                              "replace_addrs", "target_addrs", "plan_only",
                              "kwargs"})) <= 1}

\* The operation raises before _make_request is called.
Rejected(c, exc, text) ==
    /\ call' = c
    /\ cpc' = "done"
    /\ outcome' = Raised(exc, [prefix |-> text, status |-> None, details |-> <<>>,
                                 text |-> ""],
                         None, <<>>)
    /\ UNCHANGED <<request, permits, sent, response, made>>

\* _make_request is called: it first awaits rate_limiter.acquire().
MakeRequest(c, method, endpoint, data, params) ==
    /\ call' = c
    /\ request' = [method |-> method, path |-> endpoint, json |-> data,
                   params |-> params]
    /\ cpc' = "acquiring"
    /\ UNCHANGED <<permits, sent, response, made, outcome>>

Get(c, endpoint, params) == MakeRequest(c, "GET", endpoint, None, params)
Post(c, endpoint, data) == MakeRequest(c, "POST", endpoint, Some(data), None)
Patch(c, endpoint, data) == MakeRequest(c, "PATCH", endpoint, Some(data), None)

\* {"data": {"type": type, "attributes": attributes}}
Document(type, attributes) == [type |-> type, attributes |-> attributes]

HealthCheck ==
    /\ cpc = "idle"
    /\ Get([op |-> "health_check", args |-> <<>>], OrgEndpoint(""), None)
    /\ UNCHANGED <<limiterVars, dispatchVars, codecVars, cacheVars>>

CreateProject(name, description) ==
    /\ cpc = "idle"
    /\ Post([op |-> "create_project",
             args |-> [name |-> name, description |-> description]],
            OrgEndpoint("projects"),
            Document("projects", CreateProjectAttributes(name, description)))
    /\ UNCHANGED <<limiterVars, dispatchVars, codecVars, cacheVars>>

UpdateProject(project_id, name, description) ==
    /\ cpc = "idle"
    /\ LET c == [op |-> "update_project",
                 args |-> [project_id |-> project_id, name |-> name,
                           description |-> description]]
           attributes == UpdateProjectAttributes(name, description)
       IN IF NoAttributes(attributes)
          THEN Rejected(c, "ValueError",
                        "At least one attribute (name or description) must be provided")
          ELSE Patch(c, <<"projects", project_id>>,
                     Document("projects", attributes))
    /\ UNCHANGED <<limiterVars, dispatchVars, codecVars, cacheVars>>

ListProjects(include, search) ==
    /\ cpc = "idle"
    /\ Get([op |-> "list_projects",
            args |-> [include |-> include, search |-> search]],
           OrgEndpoint("projects"), Some(ListParams(include, search)))
    /\ UNCHANGED <<limiterVars, dispatchVars, codecVars, cacheVars>>

GetProject(project_id) ==
    /\ cpc = "idle"
    /\ Get([op |-> "get_project", args |-> [project_id |-> project_id]],
           <<"projects", project_id>>, None)
    /\ UNCHANGED <<limiterVars, dispatchVars, codecVars, cacheVars>>

CreateWorkspace(a) ==
    /\ cpc = "idle"
    /\ LET c == [op |-> "create_workspace", args |-> a]
           attributes == CreateWorkspaceAttributes(a)
       IN Post(c, OrgEndpoint("workspaces"),
               IF HasProject(a.project_id)
               THEN RelatedDocument("workspaces", attributes, "project",
                                    "projects", a.project_id[1])
               ELSE Document("workspaces", attributes))
    /\ UNCHANGED <<limiterVars, dispatchVars, codecVars, cacheVars>>

CreateRun(a) ==
    /\ cpc = "idle"
    /\ Post([op |-> "create_run", args |-> a], <<"runs">>,
            RelatedDocument("runs", CreateRunAttributes(a), "workspace",
                            "workspaces", a.workspace_id))
    /\ UNCHANGED <<limiterVars, dispatchVars, codecVars, cacheVars>>

UpdateWorkspace(workspace_id, kwargs) ==
    /\ cpc = "idle"
    /\ LET c == [op |-> "update_workspace",
                 args |-> [workspace_id |-> workspace_id, kwargs |-> kwargs]]
           attributes == UpdateWorkspaceAttributes(kwargs)
       IN IF NoAttributes(attributes)
          THEN Rejected(c, "ValueError", "At least one attribute must be provided")
          ELSE Patch(c, <<"workspaces", workspace_id>>,
                     Document("workspaces", attributes))
    /\ UNCHANGED <<limiterVars, dispatchVars, codecVars, cacheVars>>

ListRuns(workspace_id, organization_runs, include, search) ==
    /\ cpc = "idle"
    /\ LET c == [op |-> "list_runs",
                 args |-> [workspace_id |-> workspace_id,
                           organization_runs |-> organization_runs,
                           include |-> include, search |-> search]]
           scope == ListRunsScope(workspace_id, organization_runs)
           params == Some(ListParams(include, search))
       IN IF scope = "organization" THEN Get(c, OrgEndpoint("runs"), params)
          ELSE IF scope = "workspace"
          THEN Get(c, <<"workspaces", workspace_id[1], "runs">>, params)
          ELSE Rejected(c, "ValueError",
                        "Either workspace_id must be provided or organization_runs must be True")
    /\ UNCHANGED <<limiterVars, dispatchVars, codecVars, cacheVars>>

GetRun(run_id) ==
    /\ cpc = "idle"
    /\ Get([op |-> "get_run", args |-> [run_id |-> run_id]],
           <<"runs", run_id>>, None)
    /\ UNCHANGED <<limiterVars, dispatchVars, codecVars, cacheVars>>

\* await self.rate_limiter.acquire() returns: the permit is recorded.
AcquirePermit ==
    /\ cpc = "acquiring"
    /\ cpc' = "permitted"
    /\ permits' = permits + 1
    /\ UNCHANGED <<call, request, sent, response, made, outcome, limiterVars,
                   dispatchVars, codecVars, cacheVars>>

\* A _make_request that would send without waiting for its permit.
SendRequestUnthrottled ==
    /\ cpc \in {"acquiring", "permitted"}
    /\ cpc' = "in_flight"
    /\ sent' = sent + 1
    /\ UNCHANGED <<call, request, permits, response, made, outcome, limiterVars,
                   dispatchVars, codecVars, cacheVars>>

\* self._client.request(...): the request goes to the transport.
SendRequest ==
    /\ cpc = "permitted"
    /\ cpc' = "in_flight"
    /\ sent' = sent + 1
    /\ UNCHANGED <<call, request, permits, response, made, outcome, limiterVars,
                   dispatchVars, codecVars, cacheVars>>

\* The rest of _make_request, and of the operation, on what came back.
Finish(resp) ==
    /\ cpc' = "done"
    /\ response' = resp
    /\ made' = Classify(resp)
    /\ outcome' = OperationOutcome(call.op, Classify(resp))
    /\ UNCHANGED <<call, request, permits, sent, limiterVars, dispatchVars, codecVars, cacheVars>>

\* The transport returns an HTTP response.
ReceiveResponse(resp) ==
    /\ cpc = "in_flight"
    /\ Finish(resp)

\* A _make_request that would send again after a transport failure.
TransportFailsAndRetries(cause) ==
    /\ cpc = "in_flight"
    /\ cause \in TransportErrors
    /\ cpc' = "permitted"
    /\ UNCHANGED <<call, request, permits, sent, response, made, outcome,
                   limiterVars, dispatchVars, codecVars, cacheVars>>

\* The transport raises httpx.RequestError: no HTTP status was obtained.
TransportFails(cause) ==
    /\ cpc = "in_flight"
    /\ Finish(RequestFailure(cause))

\* The caller has the result; the client is ready for the next operation.
ReturnToCaller ==
    /\ cpc = "done"
    /\ cpc' = "idle"
    /\ call' = NoCall
    /\ request' = NoRequest
    /\ permits' = 0
    /\ sent' = 0
    /\ response' = NoResponse
    /\ made' = NoOutcome
    /\ outcome' = NoOutcome
    /\ UNCHANGED <<limiterVars, dispatchVars, codecVars, cacheVars>>

\* TerraformClient.__init__: a RateLimiter() with its defaults, nothing sent.
InitClient ==
    /\ impl = "hcp"
    /\ max_requests = DefaultMaxRequests
    /\ window_seconds = DefaultWindowSeconds
    /\ requests = <<>>
    /\ lockHolder = NoCaller
    /\ lockWaiters = <<>>
    /\ now = 0
    /\ pc = [c \in Callers |-> "idle"]
    /\ wakeAt = [c \in Callers |-> 0]
    /\ grants = <<>>
    /\ ClientAtRest
    /\ DispatchAtRest
    /\ CodecAtRest
    /\ CacheAtRest

NextClient ==
    \/ HealthCheck
    \/ \E n \in {"", "v"}, d \in StrArgs : CreateProject(n, d)
    \/ \E i \in Ids, n \in StrArgs, d \in StrArgs : UpdateProject(i, n, d)
    \/ \E i \in FilterArgs, s \in FilterArgs : ListProjects(i, s)
    \/ \E i \in Ids : GetProject(i)
    \/ \E a \in WorkspaceCreations : CreateWorkspace(a)
    \/ \E i \in Ids, kw \in WorkspaceKwargs : UpdateWorkspace(i, kw)
    \/ \E a \in RunCreations : CreateRun(a)
    \/ \E w \in StrArgs, o \in BOOLEAN, i \in FilterArgs, s \in FilterArgs :
          ListRuns(w, o, i, s)
    \/ \E i \in Ids : GetRun(i)
    \/ AcquirePermit
    \/ SendRequest
    \/ \E resp \in Responses : ReceiveResponse(resp)
    \/ \E cause \in TransportErrors : TransportFails(cause)
    \/ ReturnToCaller

SpecClient == InitClient /\ [][NextClient]_vars

\* C3: whenever the response status is >= 400 the request ends in an error
\* that carries that status code, whatever the body holds; no result is
\* returned.
C3_ErrorStatusRaisesWithStatus ==
    (cpc = "done" /\ response.kind = "response" /\ response.status >= 400)
        => (made.kind = "raise" /\ made.status_code = Some(response.status))

\* C4: a body that does not parse into the envelope (not JSON, JSON that is
\* no object, an object of the wrong shape) is reported as the client's
\* invalid-response error carrying the HTTP status.
C4_UnparsableIsInvalidResponse ==
    (cpc = "done" /\ response.kind = "response" /\ response.body.kind # "envelope")
        => /\ made.kind = "raise"
           /\ made.exc = "TerraformApiError"
           /\ made.message.prefix = "Invalid JSON response"
           /\ made.status_code = Some(response.status)

\* The call under way is an update with no field set.
UpdateWithNoField ==
    \/ /\ call.op = "update_project"
       /\ call.args.name = None
       /\ call.args.description = None
    \/ /\ call.op = "update_workspace"
       /\ \A k \in DOMAIN call.args.kwargs : call.args.kwargs[k] = None

\* C5: update_project and update_workspace with no field set are rejected
\* before any HTTP call: the operation has raised and the transport has
\* received no request.
C5_EmptyUpdateRejectedBeforeRequest ==
    UpdateWithNoField
        => /\ cpc = "done"
           /\ outcome.kind = "raise"
           /\ outcome.exc = "ValueError"
           /\ sent = 0

\* C5 witness: update_project(id) with neither name nor description has
\* been called and has raised.
C5_Witness ==
    /\ call.op = "update_project"
    /\ UpdateWithNoField
    /\ cpc = "done"
    /\ outcome.exc = "ValueError"

\* One GET to `path` is what the call under way sends.
SendsOneGetTo(path) ==
    /\ request.method = "GET"
    /\ request.path = path
    /\ sent <= 1
    /\ cpc \in {"in_flight", "done"} => sent = 1

\* C6: list_runs with neither scope raises a validation error with no HTTP
\* call; with exactly one scope it issues one GET to the runs of the
\* workspace or of the organization.
C6_ListRunsScope ==
    call.op = "list_runs" =>
        LET a == call.args IN
        /\ (~a.organization_runs /\ ~TruthyStr(a.workspace_id))
              => (cpc = "done" /\ outcome.kind = "raise"
                  /\ outcome.exc = "ValueError" /\ sent = 0)
        /\ (~a.organization_runs /\ TruthyStr(a.workspace_id))
              => SendsOneGetTo(<<"workspaces", a.workspace_id[1], "runs">>)
        /\ (a.organization_runs /\ ~TruthyStr(a.workspace_id))
              => SendsOneGetTo(<<"organizations", Organization, "runs">>)

\* C6 witness: list_runs() with no workspace_id and organization_runs False
\* has raised.
C6_Witness ==
    /\ call.op = "list_runs"
    /\ call.args.workspace_id = None
    /\ ~call.args.organization_runs
    /\ cpc = "done"
    /\ outcome.exc = "ValueError"

\* C7: health_check returns True for a 2xx response and False for a 401
\* response, without raising.  The 2xx half is stated for the responses that
\* get() returns for, those whose body parses into the envelope; the 401
\* half for every 401 response.
C7_HealthCheckByStatus ==
    (cpc = "done" /\ call.op = "health_check" /\ response.kind = "response")
        => /\ (response.status \in 200..299 /\ response.body.kind = "envelope")
                 => outcome = ReturnedBool(TRUE)
           /\ response.status = 401 => outcome = ReturnedBool(FALSE)

\* C8: health_check never propagates an error: whatever the organization
\* GET raises, health_check returns False.
C8_HealthCheckNeverRaises ==
    (cpc = "done" /\ call.op = "health_check")
        => /\ outcome.kind = "return"
           /\ made.kind = "raise" => outcome = ReturnedBool(FALSE)

\* C11: no operation is retried: whatever the outcome (success, API error,
\* invalid response, transport failure) the client sends at most one HTTP
\* request per operation call.
C11_AtMostOneRequestPerCall ==
    /\ sent <= 1
    /\ cpc = "done" => (sent = 1 <=> response # NoResponse)

\* C11 witness: an operation ended in a transport failure having sent once.
C11_Witness ==
    /\ cpc = "done"
    /\ response.kind = "request_error"
    /\ outcome.kind = "raise"
    /\ sent = 1

\* The body carries a relationships key.
HasRelationships(doc) == "relationships" \in DOMAIN doc

\* The relation's id is no attribute of the body, under either spelling.
NoRelationId(doc, relation) ==
    /\ <<relation, "_", "id">> \notin DOMAIN doc.attributes
    /\ <<relation, "-", "id">> \notin DOMAIN doc.attributes

\* create_run always relates the run to its workspace.
CreateRunRelates ==
    call.op = "create_run" =>
        LET doc == request.json[1] IN
        /\ NoRelationId(doc, "workspace")
        /\ HasRelationships(doc)
        /\ doc.relationships =
              ("workspace" :> [type |-> "workspaces", id |-> call.args.workspace_id])

\* create_workspace relates the workspace to a project exactly when given(p).
CreateWorkspaceRelatesWhen(given(_)) ==
    call.op = "create_workspace" =>
        LET doc == request.json[1]
            project_id == call.args.project_id
        IN /\ NoRelationId(doc, "project")
           /\ given(project_id) =>
                 /\ HasRelationships(doc)
                 /\ doc.relationships =
                       ("project" :> [type |-> "projects", id |-> project_id[1]])
           /\ ~given(project_id) => ~HasRelationships(doc)

IsSet(v) == v # None

\* C12 as stated: a relation's id never appears in data.attributes;
\* create_workspace emits relationships.project.data = {projects, project_id}
\* exactly when project_id is set (is not None) and no relationships key
\* otherwise; create_run always emits relationships.workspace.data =
\* {workspaces, workspace_id}.
C12_RelationshipsWhenSet ==
    CreateWorkspaceRelatesWhen(IsSet) /\ CreateRunRelates

\* C12 amended: as above, but create_workspace emits the relationship
\* exactly when project_id is a non-empty string; for None and for the empty
\* string alike there is no relationships key.
C12_RelationshipsWhenNonEmpty ==
    CreateWorkspaceRelatesWhen(TruthyStr) /\ CreateRunRelates

\* C12 witness: create_workspace with a project_id, and with an attribute
\* of hyphenated name, has sent its request.
C12_Witness ==
    /\ call.op = "create_workspace"
    /\ call.args.project_id = Some("v")
    /\ call.args.auto_apply = Some(TRUE)
    /\ HasRelationships(request.json[1])
    /\ sent = 1

\* C14: every error that leaves a client operation (validation failure,
\* invalid response, API error, transport failure) is of the client's one
\* error type, so that a caller catching that type catches them all; a
\* validation failure is no exception of another type.
C14_OneErrorType ==
    (cpc = "done" /\ outcome.kind = "raise") => outcome.exc = "TerraformApiError"

\* The fields an update call sets, empty and falsy values included, with
\* the attribute name each is sent under.
FieldsSet ==
    IF call.op = "update_project"
    THEN {<<k, v>> \in {<<K_name, call.args.name>>,
                        <<K_description, call.args.description>>} : v # None}
    ELSE {<<Hyphenate(k), call.args.kwargs[k]>> : k \in
             {k \in DOMAIN call.args.kwargs : call.args.kwargs[k] # None}}

\* The operation under way was rejected by its own validation.
RejectedByValidation == cpc = "done" /\ made = NoOutcome

\* C26: a field set to an empty or falsy value counts as set: an
\* update_project or update_workspace call with some field set, be it to
\* the empty string or to false, is not rejected as having no field set,
\* and every field set is in the attributes of the request.
C26_FalsyFieldCountsAsSet ==
    (call.op \in {"update_project", "update_workspace"} /\ FieldsSet # {}) =>
        /\ ~RejectedByValidation
        /\ \A f \in FieldsSet :
              /\ f[1] \in DOMAIN request.json[1].attributes
              /\ request.json[1].attributes[f[1]] = f[2][1]

\* C30: success is decided by the HTTP status alone: a response with a
\* status below 400 and a parseable envelope is returned as it is, also
\* when the envelope has a non-empty errors array or no data; and a request
\* that was sent ends in one of three ways only: the envelope returned
\* (status below 400), the client's error carrying the status (status 400
\* or above, or a body that does not parse), or the client's error without
\* status (transport failure).
C30_OutcomeByStatusAlone ==
    (cpc = "done" /\ response # NoResponse) =>
        /\ (/\ response.kind = "response"
            /\ response.body.kind = "envelope"
            /\ ~IsErrorStatus(response.status))
              => made = Returned(response.body)
        /\ \/ /\ made.kind = "return"
              /\ response.kind = "response"
              /\ ~IsErrorStatus(response.status)
           \/ /\ made.kind = "raise"
              /\ made.exc = "TerraformApiError"
              /\ response.kind = "response"
              /\ made.status_code = Some(response.status)
              /\ (IsErrorStatus(response.status) \/ response.body.kind # "envelope")
           \/ /\ made.kind = "raise"
              /\ made.exc = "TerraformApiError"
              /\ response.kind = "request_error"
              /\ made.status_code = None

\* C22: within one client operation the steps run in the order validate,
\* throttle, send, parse: a request is started only after the operation was
\* granted its permit, a response is classified only after the request was
\* sent, and an operation that its validation rejects ends with no permit
\* acquired and no request sent.
C22_StepsInOrder ==
    /\ sent <= permits
    /\ cpc \in {"idle", "acquiring"} => permits = 0
    /\ cpc = "in_flight" => (permits = 1 /\ sent = 1 /\ made = NoOutcome)
    /\ made # NoOutcome => (cpc = "done" /\ permits = 1 /\ sent = 1)
    /\ (cpc = "done" /\ made = NoOutcome) =>
          (outcome.exc = "ValueError" /\ permits = 0 /\ sent = 0)

C22_Witness ==
    /\ cpc = "done"
    /\ call.op = "update_project"
    /\ call.args.name = Some("v")
    /\ made.kind = "return"
    /\ permits = 1
    /\ sent = 1

\* C19: when the network call fails before any HTTP status is obtained
\* (connection refused, DNS or TLS failure, or the timeout), _make_request
\* raises the client's error "Request failed" with no status code and an
\* empty list of structured errors, whatever the failure was, a timeout
\* like any other; every operation that does not catch the client's error
\* (all but health_check) raises it unchanged.
C19_TransportFailureIsClientError ==
    (cpc = "done" /\ response.kind = "request_error") =>
        /\ made.kind = "raise"
        /\ made.exc = "TerraformApiError"
        /\ made.message.prefix = "Request failed"
        /\ made.status_code = None
        /\ made.errors = <<>>
        /\ call.op # "health_check" => outcome = made

\* The positions of the entries of an errors array whose title and detail
\* both count as given.
Complete(errs, given(_)) ==
    {i \in 1..Len(errs) : given(errs[i].title) /\ given(errs[i].detail)}

\* The place of entry i among the entries at the positions idx.
Rank(idx, i) == Cardinality({j \in idx : j <= i})

\* An error response whose envelope has an errors array was classified.
ErrorArrayClassified ==
    /\ cpc = "done"
    /\ response.kind = "response"
    /\ response.body.kind = "envelope"
    /\ IsErrorStatus(response.status)
    /\ response.body.errors # None

\* The message has one part per entry that counts as having both fields,
\* in the order of the array, and the raised error has the whole array.
MessagePartsWhen(given(_)) ==
    ErrorArrayClassified =>
        LET errs == response.body.errors[1]
            idx == Complete(errs, given)
            parts == made.message.details
        IN /\ made.exc = "TerraformApiError"
           /\ Len(parts) = Cardinality(idx)
           /\ \A i \in idx :
                 parts[Rank(idx, i)] = <<errs[i].title[1], errs[i].detail[1]>>
           /\ made.errors = errs

\* C20 as stated: for an error response, the message has, in order and
\* joined by "; ", exactly one "<title>: <detail>" part for every entry of
\* the errors array in which title and detail are both present, and the
\* raised error's errors list is the whole array.
C20_PartForEveryEntryWithBoth == MessagePartsWhen(IsSet)

\* C20, amended: for an error response, the message has, in order and
\* joined by "; ", exactly one "<title>: <detail>" part for every entry of
\* the errors array whose title and detail are both non-empty strings;
\* entries with an absent or empty title or detail add nothing to the
\* message, and the raised error's errors list is the whole array, complete
\* entries or not.
C20_PartForEveryEntryWithNonEmptyBoth == MessagePartsWhen(TruthyStr)

C20_Witness ==
    /\ ErrorArrayClassified
    /\ response.body.errors[1] =
           <<[title |-> None, detail |-> Some("D")],
             [title |-> Some("T"), detail |-> Some("E")]>>
    /\ made.message.details = <<<<"T", "E">>>>
    /\ Len(made.errors) = 2

C19_Witness ==
    /\ cpc = "done"
    /\ call.op = "get_run"
    /\ response = RequestFailure("ReadTimeout")
    /\ outcome.exc = "TerraformApiError"
    /\ outcome.status_code = None
    /\ outcome.errors = <<>>

(***************************************************************************)
(* Tool dispatch: ToolHandlers.dispatch and the server's call_tool         *)
(***************************************************************************)
\* The tools get_tools() declares.
ToolNames ==
    {"health_check", "create_project", "update_project", "list_projects",
     "create_workspace", "update_workspace", "list_workspaces",
     "lock_workspace", "unlock_workspace", "create_run", "apply_run",
     "cancel_run", "discard_run", "list_runs"}

\* Attributes of a ToolHandlers object that are no tool handlers.
HandlerAttributes == {"dispatch", "client", "__init__"}

\* The names a host may ask for: the tools, names that happen to be
\* attributes of the handler object, and a name that is nothing at all.
RequestedNames == ToolNames \cup HandlerAttributes \cup {"no_such_tool"}

\* The arguments dict of a tool call: any subset of these keys, each with a
\* string value.
ArgKeys == {"name", "project_id", "workspace_id", "run_id", "include", "extra"}
ArgumentDicts == UNION {[ks -> {"v"}] : ks \in SUBSET ArgKeys}

\* dict.get(key)
DictGet(d, key) == IF key \in DOMAIN d THEN Some(d[key]) ELSE None

\* [TextContent(type="text", text=...)]: the fixed part of the text and the
\* value formatted into it.
Text(head, subject) ==
    [kind |-> "text", head |-> head, subject |-> subject, exc |-> ""]

\* An exception leaves the entry point.
Propagated(exc) ==
    [kind |-> "raise", head |-> "", subject |-> None, exc |-> exc]

\* What a handler does before it awaits the client: it raises, or it calls
\* the client method of its name.
Raises(exc) ==
    [kind |-> "raise", exc |-> exc, op |-> "none", subject |-> None, passed |-> <<>>]
Calls(op, subject, passed) ==
    [kind |-> "call", exc |-> "", op |-> op, subject |-> subject, passed |-> passed]

\* The words of the confirmation texts.
Verb(name) ==
    CASE name \in {"create_project", "create_workspace", "create_run"} -> "create"
      [] name \in {"update_project", "update_workspace"} -> "update"
      [] name = "lock_workspace" -> "lock"
      [] name = "unlock_workspace" -> "unlock"
      [] name = "apply_run" -> "apply"
      [] name = "cancel_run" -> "cancel"
      [] name = "discard_run" -> "discard"
      [] name = "health_check" -> "check"
      [] OTHER -> "list"

Noun(name) ==
    CASE name \in {"create_project", "update_project", "list_projects"} -> "project"
      [] name \in {"create_run", "apply_run", "cancel_run", "discard_run",
                   "list_runs"} -> "run"
      [] OTHER -> "workspace"

Succeeded(name, subject) == Text(<<"Successfully", Verb(name), Noun(name)>>, subject)
Failed(name, subject) == Text(<<"Failed to", Verb(name), Noun(name)>>, subject)
Found(name) == Text(<<"Found", Noun(name)>>, None)
NoneFound(name) == Text(<<"No", Noun(name), "found">>, None)
Health(flag) ==
    Text(<<"HCP Terraform API is">>, Some(IF flag THEN "healthy" ELSE "unhealthy"))
UnknownTool(name) == Text(<<"Unknown tool">>, Some(name))

\* "if response.data": absent data and an empty list are falsy.
HasData(reply) == reply.envelope[1].data \notin {"absent", "empty_list"}

\* getattr(self, name, None) followed by "if handler": every attribute of
\* the ToolHandlers object is found, a tool handler or not.
HandlerFound(name) == name \in ToolNames \cup HandlerAttributes

\* The key whose value a tool's texts name.
SubjectKey(name) ==
    CASE name \in {"create_project", "create_workspace"} -> "name"
      [] name = "update_project" -> "project_id"
      [] name \in {"update_workspace", "lock_workspace", "unlock_workspace"}
            -> "workspace_id"
      [] name \in {"apply_run", "cancel_run", "discard_run"} -> "run_id"
      [] OTHER -> "none"

\* The keywords the client's list methods take.
ListKeywords(name) ==
    IF name = "list_runs"
    THEN {"workspace_id", "organization_runs", "include", "search"}
    ELSE {"include", "search"}

\* The keys a tool's request model declares; call_tool reads the same
\* keys with arguments.get.
DeclaredKeys(name) ==
    CASE name = "health_check" -> {}
      [] name = "create_project" -> {"name", "description"}
      [] name = "update_project" -> {"project_id", "name", "description"}
      [] name \in {"create_workspace", "update_workspace"} ->
            {"name", "description", "auto_apply", "execution_mode",
             "terraform_version", "working_directory"}
            \cup (IF name = "create_workspace" THEN {"project_id"}
                  ELSE {"workspace_id"})
      [] name = "lock_workspace" -> {"workspace_id", "reason"}
      [] name = "unlock_workspace" -> {"workspace_id"}
      [] name = "create_run" ->
            {"workspace_id", "message", "is_destroy", "refresh", "refresh_only",
             "plan_only", "replace_addrs", "target_addrs"}
      [] name \in {"apply_run", "cancel_run", "discard_run"} -> {"run_id", "comment"}
      [] OTHER -> ListKeywords(name)

\* The part of the arguments under the given keys.
Restrict(d, keys) == [k \in DOMAIN d \cap keys |-> d[k]]

\* What a request model built from kwargs holds, and what the
\* arguments.get(...) of a call_tool branch read: the declared keys only.
Declared(name, kwargs) == Restrict(kwargs, DeclaredKeys(name))

\* handler(**arguments) in ToolHandlers, up to the await of the client.
\*  - create_*: the request model requires a field (name, or workspace_id
\*    for create_run); pydantic raises ValidationError without it and
\*    ignores keys it does not declare;
\*  - update_* and the run actions: kwargs.pop(id) raises KeyError;
\*  - lock / unlock: kwargs.get, nothing is required;
\*  - list_*: client.list_x(**kwargs) raises TypeError on a keyword the
\*    method does not take;
\*  - "client" is no callable and "dispatch" and "__init__" require
\*    parameters that are no keys of ArgKeys: the call raises TypeError.
HandlerCall(name, kwargs) ==
    CASE name \in HandlerAttributes -> Raises("TypeError")
      [] name = "health_check" -> Calls(name, None, Declared(name, kwargs))
      [] name \in {"create_project", "create_workspace"} ->
            IF "name" \in DOMAIN kwargs
            THEN Calls(name, Some(kwargs["name"]), Declared(name, kwargs))
            ELSE Raises("ValidationError")
      [] name = "create_run" ->
            IF "workspace_id" \in DOMAIN kwargs
            THEN Calls(name, None, Declared(name, kwargs))
            ELSE Raises("ValidationError")
      [] name \in {"update_project", "update_workspace", "apply_run",
                   "cancel_run", "discard_run"} ->
            IF SubjectKey(name) \in DOMAIN kwargs
            THEN Calls(name, Some(kwargs[SubjectKey(name)]), Declared(name, kwargs))
            ELSE Raises("KeyError")
      [] name \in {"lock_workspace", "unlock_workspace"} ->
            Calls(name, DictGet(kwargs, "workspace_id"), Declared(name, kwargs))
      [] OTHER ->
            IF DOMAIN kwargs \subseteq ListKeywords(name)
            THEN Calls(name, None, kwargs)
            ELSE Raises("TypeError")

\* The responses the dispatch model lets the transport give.
DispatchResponses ==
    {r \in Responses : r.status \in {200, 401} /\ r.body.errors = None}
    \cup {RequestFailure(cause) : cause \in TransportErrors}

\* How a client operation that sends its request can end.
TransportReplies(op) == {OperationOutcome(op, Classify(r)) : r \in DispatchResponses}

\* The client's "raise ValueError(...)" before any request.
ValidationReply == Raised("ValueError", NoMessage, None, <<>>)

\* The operations that validate their arguments.
Validating == {"update_project", "update_workspace", "list_runs"}

\* How the client method a ToolHandlers handler awaits can end.
HandlerReplies(op) ==
    TransportReplies(op) \cup (IF op \in Validating THEN {ValidationReply} ELSE {})

\* What a call_tool branch does up to its await: every branch reads the
\* declared keys with arguments.get and calls the client, but update_workspace
\* hands every key of the arguments other than workspace_id to the client
\* as a keyword.
CallToolCall(name, arguments) ==
    Calls(name, DictGet(arguments, SubjectKey(name)),
          IF name = "update_workspace" THEN arguments
          ELSE Declared(name, arguments))

\* The client rejects an update without attributes and a list_runs without
\* scope.
ClientRejects(name, passed) ==
    CASE name = "update_project" ->
            NoAttributes(UpdateProjectAttributes(DictGet(passed, "name"),
                                                 DictGet(passed, "description")))
      [] name = "update_workspace" -> DOMAIN passed \ {"workspace_id"} = {}
      [] name = "list_runs" ->
            ListRunsScope(DictGet(passed, "workspace_id"),
                          "organization_runs" \in DOMAIN passed) = "none"
      [] OTHER -> FALSE

\* How the client method call_tool awaits can end.
CallToolReplies(name, passed) ==
    IF ClientRejects(name, passed) THEN {ValidationReply}
    ELSE TransportReplies(name)

\* A ToolHandlers handler after the await: an exception of the client
\* passes through; create and update and list look at response.data;
\* lock, unlock and the run actions confirm whatever came back.
HandlerRenders(name, subject, reply) ==
    IF reply.kind = "raise" THEN Propagated(reply.exc)
    ELSE CASE Verb(name) = "check" -> Health(reply.flag[1])
           [] Verb(name) = "create" ->
                 IF ~HasData(reply) THEN Failed(name, subject)
                 ELSE IF reply.envelope[1].data = "list"
                 THEN Propagated("AttributeError")
                 ELSE Succeeded(name, subject)
           [] Verb(name) = "update" ->
                 IF HasData(reply) THEN Succeeded(name, subject)
                 ELSE Failed(name, subject)
           [] Verb(name) = "list" ->
                 IF HasData(reply) THEN Found(name) ELSE NoneFound(name)
           [] OTHER -> Succeeded(name, subject)

\* A call_tool branch after the await: every branch but health_check and
\* the lists answers "Successfully" or "Failed to" by response.data.
CallToolRenders(name, subject, reply) ==
    IF reply.kind = "raise" THEN Propagated(reply.exc)
    ELSE CASE Verb(name) = "check" -> Health(reply.flag[1])
           [] Verb(name) = "create" ->
                 IF ~HasData(reply) THEN Failed(name, subject)
                 ELSE IF reply.envelope[1].data = "list"
                 THEN Propagated("AttributeError")
                 ELSE Succeeded(name, subject)
           [] Verb(name) = "list" ->
                 IF HasData(reply) THEN Found(name) ELSE NoneFound(name)
           [] OTHER ->
                 IF HasData(reply) THEN Succeeded(name, subject)
                 ELSE Failed(name, subject)

\* except TerraformApiError / except Exception around call_tool's branches.
CallToolCatches(result) ==
    IF result.kind # "raise" THEN result
    ELSE IF result.exc = "TerraformApiError" THEN Text(<<"API Error">>, None)
    ELSE Text(<<"Unexpected error">>, Some(result.exc))

\* The HTTP requests the transport received for the tool call: the awaited
\* client method sends one unless it raised before _make_request.
RequestsSent == IF clientReply \in {NoOutcome, ValidationReply} THEN 0 ELSE 1

\* The key a tool's inputSchema requires, if any.
RequiredKey(name) == IF name = "create_run" THEN "workspace_id" ELSE SubjectKey(name)

\* The entry point returns, or raises, without having called the client.
EndsAtOnce(c, result) ==
    /\ dcall' = c
    /\ dpc' = "done"
    /\ dresult' = result
    /\ UNCHANGED <<clientCall, clientCalls, clientReply>>

\* The entry point awaits a method of the client.
AwaitsClient(c, bound) ==
    /\ dcall' = c
    /\ dpc' = "awaiting_client"
    /\ clientCall' = [op |-> bound.op, subject |-> bound.subject,
                      passed |-> bound.passed]
    /\ clientCalls' = clientCalls + 1
    /\ UNCHANGED <<clientReply, dresult>>

\* ToolHandlers.dispatch(name, arguments), up to the handler's await.
Dispatch(name, arguments) ==
    /\ dpc = "idle"
    /\ LET c == [via |-> "ToolHandlers", ready |-> TRUE, name |-> name,
                 arguments |-> arguments]
           bound == HandlerCall(name, arguments)
       IN IF ~HandlerFound(name) THEN EndsAtOnce(c, UnknownTool(name))
          ELSE IF bound.kind = "raise" THEN EndsAtOnce(c, Propagated(bound.exc))
          ELSE AwaitsClient(c, bound)
    /\ UNCHANGED <<limiterVars, clientVars, codecVars, cacheVars>>

\* The client method returns or raises into the ToolHandlers handler;
\* neither the handler nor dispatch has a try.
HandlerResumes(reply) ==
    /\ dpc = "awaiting_client"
    /\ dcall.via = "ToolHandlers"
    /\ reply \in HandlerReplies(clientCall.op)
    /\ dpc' = "done"
    /\ clientReply' = reply
    /\ dresult' = HandlerRenders(clientCall.op, clientCall.subject, reply)
    /\ UNCHANGED <<dcall, clientCall, clientCalls, limiterVars, clientVars, codecVars, cacheVars>>

\* The server's call_tool(name, arguments), up to the branch's await; ready
\* says whether start() has set self.client.
CallTool(ready, name, arguments) ==
    /\ dpc = "idle"
    /\ LET c == [via |-> "call_tool", ready |-> ready, name |-> name,
                 arguments |-> arguments]
       IN IF ~ready
          THEN EndsAtOnce(c, Text(<<"Error: Terraform client not initialized">>, None))
          ELSE IF name \in ToolNames
          THEN AwaitsClient(c, CallToolCall(name, arguments))
          ELSE EndsAtOnce(c, UnknownTool(name))
    /\ UNCHANGED <<limiterVars, clientVars, codecVars, cacheVars>>

\* The client method returns or raises into call_tool's try block.
CallToolResumes(reply) ==
    /\ dpc = "awaiting_client"
    /\ dcall.via = "call_tool"
    /\ reply \in CallToolReplies(clientCall.op, clientCall.passed)
    /\ dpc' = "done"
    /\ clientReply' = reply
    /\ dresult' = CallToolCatches(
                      CallToolRenders(clientCall.op, clientCall.subject, reply))
    /\ UNCHANGED <<dcall, clientCall, clientCalls, limiterVars, clientVars, codecVars, cacheVars>>

\* The host has what the entry point gave it.
HostReceives ==
    /\ dpc = "done"
    /\ dpc' = "idle"
    /\ dcall' = NoToolCall
    /\ clientCall' = NoClientCall
    /\ clientCalls' = 0
    /\ clientReply' = NoOutcome
    /\ dresult' = NoResult
    /\ UNCHANGED <<limiterVars, clientVars, codecVars, cacheVars>>

\* A server, or a ToolHandlers object, over a client that has sent nothing.
InitDispatch == InitClient

NextDispatch ==
    \/ \E name \in RequestedNames, arguments \in ArgumentDicts :
           Dispatch(name, arguments)
    \/ \E reply \in UNION {HandlerReplies(op) : op \in ToolNames} :
           HandlerResumes(reply)
    \/ \E ready \in BOOLEAN, name \in RequestedNames, arguments \in ArgumentDicts :
           CallTool(ready, name, arguments)
    \/ \E reply \in UNION {TransportReplies(op) : op \in ToolNames}
                    \cup {ValidationReply} :
           CallToolResumes(reply)
    \/ HostReceives

SpecDispatch == InitDispatch /\ [][NextDispatch]_vars

\* C9: every dispatch of a tool call gives the host a text result; no
\* exception raised while the call is handled leaves the entry point.
C9_DispatchAlwaysReturnsText ==
    dpc = "done" => dresult.kind = "text"

\* C10: for every name outside the supported tool names, names of other
\* attributes of the handler object included, dispatch returns the
\* "Unknown tool" text, calls no client method and does not raise.
C10_OnlyToolNamesAccepted ==
    (dcall.via # "none" /\ dcall.ready /\ dcall.name \notin ToolNames)
        => /\ dpc = "done"
           /\ dresult = UnknownTool(dcall.name)
           /\ clientCalls = 0

(***************************************************************************)
(* Attribute names: underscored in process, hyphenated on the wire         *)
(***************************************************************************)
K_execution_mode == <<"execution", "_", "mode">>
K_terraform_version == <<"terraform", "_", "version">>
K_working_directory == <<"working", "_", "directory">>
K_trigger_prefixes == <<"trigger", "_", "prefixes">>

\* The fields UpdateWorkspaceRequest declares; WorkspaceAttributes declares
\* them under the same names.
WorkspaceFields ==
    {K_name, K_description, K_auto_apply, K_execution_mode,
     K_terraform_version, K_working_directory, K_trigger_prefixes}

\* A value for a field, by its type.
FieldValue(f) ==
    IF f = K_auto_apply THEN TRUE
    ELSE IF f = K_trigger_prefixes THEN <<"prefix">>
    ELSE "v"

\* The request models: each field unset (None) or set.
WorkspaceModels ==
    {[f \in WorkspaceFields |-> IF f \in set THEN Some(FieldValue(f)) ELSE None] :
        set \in SUBSET WorkspaceFields}

\* WorkspaceAttributes(**attributes): a declared field takes the value
\* found under its own, underscored, name (the model declares no alias);
\* keys that are no field names are ignored. In the except branch the
\* attributes mapping is kept as it is, and a lookup by field name gives the
\* same.
ReadField(attributes, f) ==
    IF f \in DOMAIN attributes THEN Some(attributes[f]) ELSE None

\* name is the one field WorkspaceAttributes requires.
ReadValidates(attributes) == K_name \in DOMAIN attributes

\* A request model is filled in.
Construct(m) ==
    /\ xpc = "idle"
    /\ xpc' = "model"
    /\ fields' = m
    /\ UNCHANGED <<wire, decoded, limiterVars, clientVars, dispatchVars,
                   cacheVars>>

\* update_workspace writes the fields that are set to the attributes.
WriteAttributes ==
    /\ xpc = "model"
    /\ xpc' = "wire"
    /\ wire' = UpdateWorkspaceAttributes(fields)
    /\ UNCHANGED <<fields, decoded, limiterVars, clientVars, dispatchVars,
                   cacheVars>>

\* read_resource reads the attributes back into WorkspaceAttributes.
ReadAttributes ==
    /\ xpc = "wire"
    /\ xpc' = "read"
    /\ decoded' = [valid |-> ReadValidates(wire),
                   model |-> [f \in WorkspaceFields |-> ReadField(wire, f)]]
    /\ UNCHANGED <<fields, wire, limiterVars, clientVars, dispatchVars,
                   cacheVars>>

InitCodec == InitClient

NextCodec ==
    \/ \E m \in WorkspaceModels : Construct(m)
    \/ WriteAttributes
    \/ ReadAttributes

SpecCodec == InitCodec /\ [][NextCodec]_vars

\* C13: the translation between underscored field names and hyphenated
\* wire names is lossless: for every declared field that is set, writing it
\* to the wire and reading the attributes back into the in-process model
\* recovers the same value.  Stated for the reads that validate, those of
\* attributes that carry a name.
C13_NamesRoundTrip ==
    (xpc = "read" /\ decoded.valid) =>
        \A f \in WorkspaceFields :
            fields[f] # None => decoded.model[f] = fields[f]

\* The tool call lacks the field its tool requires.
MissingRequired ==
    /\ dcall.ready
    /\ dcall.name \in ToolNames
    /\ RequiredKey(dcall.name) # "none"
    /\ RequiredKey(dcall.name) \notin DOMAIN dcall.arguments

\* C15: a tool call whose arguments lack a required field (name for
\* create_project and create_workspace, workspace_id for create_run, the
\* resource id for update, lock, unlock and the run actions) is rejected
\* before any network call: the transport receives no request.
C15_MissingFieldSendsNothing ==
    (dpc = "done" /\ MissingRequired) => RequestsSent = 0

\* What an entry point does with a tool call up to the await.
BindingOf(via, name, arguments) ==
    IF via = "ToolHandlers" THEN HandlerCall(name, arguments)
    ELSE CallToolCall(name, arguments)

\* The results an entry point can give for a tool call.
ResultsOf(via, name, arguments) ==
    LET bound == BindingOf(via, name, arguments) IN
    IF bound.kind = "raise" THEN {Propagated(bound.exc)}
    ELSE IF via = "ToolHandlers"
    THEN {HandlerRenders(name, bound.subject, reply) :
             reply \in HandlerReplies(name)}
    ELSE {CallToolCatches(CallToolRenders(name, bound.subject, reply)) :
             reply \in CallToolReplies(name, bound.passed)}

\* C16: keys of the arguments that the tool's request model does not
\* declare are ignored: the tool call makes the client call, and so sends the
\* request, that the same tool call without those keys makes, and ends in a
\* result the call without them can end in.
C16_ExtraKeysIgnored ==
    (dcall.ready /\ dcall.name \in ToolNames /\ dpc # "idle") =>
        LET stripped == Declared(dcall.name, dcall.arguments)
            bound == BindingOf(dcall.via, dcall.name, stripped)
        IN /\ clientCalls = (IF bound.kind = "call" THEN 1 ELSE 0)
           /\ clientCalls = 1 =>
                 clientCall = [op |-> bound.op, subject |-> bound.subject,
                               passed |-> bound.passed]
           /\ dpc = "done" =>
                 dresult \in ResultsOf(dcall.via, dcall.name, stripped)

\* C17: for lock_workspace, unlock_workspace, apply_run, cancel_run and
\* discard_run, whenever the client operation returns, the entry point gives
\* the confirmation text naming the resource id, whether or not the
\* envelope carries data.
C17_ActionsConfirmWhenClientReturns ==
    (/\ dpc = "done"
     /\ dcall.name \in {"lock_workspace", "unlock_workspace", "apply_run",
                        "cancel_run", "discard_run"}
     /\ clientReply.kind = "return")
        => dresult = Succeeded(dcall.name, clientCall.subject)

(***************************************************************************)
(* ResourceHandler.read_resource                                           *)
(***************************************************************************)
\* A resource URI is the sequence of the path segments after "terraform://".
ListUris == {<<"projects">>, <<"workspaces">>, <<"runs">>}
ResourceIds == {"id-1", "id-2", "id-3"}
SingularUris == {<<kind, id>> : kind \in {"project", "workspace", "run"},
                                id \in ResourceIds}
ResourceUris ==
    ListUris \cup SingularUris \cup {<<"organization", "info">>, <<"nothing">>}

\* uri_str.split("/")[-1]
LastSegment(uri) == uri[Len(uri)]

\* The client operation a branch of read_resource awaits first.
ListOperation(uri) ==
    CASE uri = <<"projects">> -> "list_projects"
      [] uri = <<"workspaces">> -> "list_workspaces"
      [] OTHER -> "list_runs"
GetOperation(uri) ==
    CASE uri[1] = "project" -> "get_project"
      [] uri[1] = "workspace" -> "get_workspace"
      [] OTHER -> "get_run"

\* The branch of read_resource a URI takes, up to its first await. The list
\* branches call the list operation without arguments; the singular
\* branches call the get operation with the last segment; the organization
\* branch reads self.client.endpoints, which TerraformClient does not have.
ReadResourceCall(uri) ==
    IF uri \in ListUris THEN Calls(ListOperation(uri), None, <<>>)
    ELSE IF uri \in SingularUris
    THEN Calls(GetOperation(uri), Some(LastSegment(uri)), <<>>)
    ELSE IF uri = <<"organization", "info">> THEN Raises("AttributeError")
    ELSE Raises("nothing")

\* The contents read_resource returns: a JSON document of a resource or of
\* a list, or plain text.
Json(type, subject) ==
    [kind |-> "json", head |-> <<type>>, subject |-> subject, exc |-> ""]
UnknownResource(uri) == Text(<<"Unknown resource">>, Some(LastSegment(uri)))

\* except TerraformApiError / except Exception around read_resource's
\* branches.
ReadResourceCatches(result) ==
    IF result.kind # "raise" THEN result
    ELSE IF result.exc = "TerraformApiError" THEN Text(<<"API Error">>, None)
    ELSE Text(<<"Unexpected error">>, Some(result.exc))

\* A branch after its first await: "if response.data" guards the document;
\* a branch whose response has no data, or an empty list, falls through to
\* the "Unknown resource" text. A singular branch reads response.data.id.
ReadResourceRenders(uri, reply) ==
    IF reply.kind = "raise" THEN Propagated(reply.exc)
    ELSE IF ~HasData(reply) THEN UnknownResource(uri)
    ELSE IF uri \in ListUris THEN Json(uri[1], None)
    ELSE IF reply.envelope[1].data = "list" THEN Propagated("AttributeError")
    ELSE Json(uri[1], Some(LastSegment(uri)))

\* The calls a singular branch makes after the first, inside
\* "try: ... except Exception: pass": list_workspaces for a project,
\* list_runs for a workspace, get_workspace for a run that names one.
SecondaryCalls(uri, reply, related) ==
    IF uri \notin SingularUris \/ reply.kind = "raise" THEN 0
    ELSE IF ~HasData(reply) THEN 0
    ELSE IF uri[1] = "run"
    THEN (IF reply.envelope[1].data = "single" /\ related THEN 1 ELSE 0)
    ELSE 1

\* read_resource(uri), up to the branch's first await.
ReadResource(uri) ==
    /\ dpc = "idle"
    /\ LET c == [via |-> "read_resource", ready |-> TRUE, name |-> uri[1],
                 arguments |-> uri]
           bound == ReadResourceCall(uri)
       IN IF bound.kind = "call" THEN AwaitsClient(c, bound)
          ELSE IF bound.exc = "nothing" THEN EndsAtOnce(c, UnknownResource(uri))
          ELSE EndsAtOnce(c, ReadResourceCatches(Propagated(bound.exc)))
    /\ UNCHANGED <<limiterVars, clientVars, codecVars, cacheVars>>

\* The client operation returns or raises into read_resource's try block;
\* related says whether a run's relationships name a workspace.
ReadResourceResumes(reply, related) ==
    /\ dpc = "awaiting_client"
    /\ dcall.via = "read_resource"
    /\ reply \in CallToolReplies(clientCall.op, clientCall.passed)
    /\ related => (dcall.name = "run" /\ reply.kind = "return"
                   /\ reply.envelope[1].data = "single")
    /\ dpc' = "done"
    /\ clientReply' = reply
    /\ clientCalls' = clientCalls + SecondaryCalls(dcall.arguments, reply, related)
    /\ dresult' = ReadResourceCatches(ReadResourceRenders(dcall.arguments, reply))
    /\ UNCHANGED <<dcall, clientCall, limiterVars, clientVars, codecVars, cacheVars>>

\* A ResourceHandler over a client that has sent nothing.
InitResources == InitClient

NextResources ==
    \/ \E uri \in ResourceUris : ReadResource(uri)
    \/ \E reply \in UNION {TransportReplies(op) : op \in ToolNames}
                    \cup {ValidationReply},
          related \in BOOLEAN :
           ReadResourceResumes(reply, related)
    \/ HostReceives

SpecResources == InitResources /\ [][NextResources]_vars

\* C18: reading a list URI (projects, workspaces, runs) calls the client's
\* list operation of that name, which sends its request, and whenever the
\* operation returns, also with an empty list, the contents are a JSON
\* document; reading a singular URI calls the get operation of its kind with
\* the last path segment as id.
C18_ReadResourceCallsAndRenders ==
    /\ (dpc = "done" /\ dcall.arguments \in ListUris) =>
          /\ clientCall.op = ListOperation(dcall.arguments)
          /\ RequestsSent = 1
          /\ clientReply.kind = "return" => dresult.kind = "json"
    /\ (dpc # "idle" /\ dcall.arguments \in SingularUris) =>
          /\ clientCall.op = GetOperation(dcall.arguments)
          /\ clientCall.subject = Some(LastSegment(dcall.arguments))

(***************************************************************************)
(* TerraformMcpServer: the object and its cache methods                    *)
(***************************************************************************)
\* The attributes a TerraformMcpServer has: those __init__ sets and the
\* methods the class defines.
ServerAttributes ==
    {"config", "client", "server", "_get_safe_config_for_logging",
     "_setup_handlers", "start", "stop", "run"}

\* The methods the cache tests call, and one the class has.
CacheMethods == {"_set_cache", "_get_from_cache", "_clear_cache"}
CalledMethods == CacheMethods \cup {"_get_safe_config_for_logging"}
CacheData == {"data1", "data2"}

\* server._cache_ttl = 1, as the expiration test sets it.
CacheTtl == 1

\* server.<name>(...): an attribute the object lacks raises AttributeError;
\* _get_safe_config_for_logging returns the obfuscated configuration.
MethodResult(name) ==
    IF name \notin ServerAttributes
    THEN [kind |-> "raise", exc |-> "AttributeError", data |-> None]
    ELSE [kind |-> "return", exc |-> "", data |-> Some("config")]

\* What the callers have handed to the cache so far: _set_cache(key, data)
\* at the time of the call, and _clear_cache() forgetting it all.
Asked(name, key, data) ==
    CASE name = "_set_cache" ->
            [asked EXCEPT ![key] = Some([data |-> data, at |-> ktime])]
      [] name = "_clear_cache" -> [k \in CacheKeys |-> None]
      [] OTHER -> asked

\* TerraformMcpServer(): the configuration says whether caching is enabled.
NewServer(flag) ==
    /\ kpc = "unbuilt"
    /\ kpc' = "idle"
    /\ enable_caching' = flag
    /\ UNCHANGED <<kcall, kresult, asked, ktime, limiterVars, clientVars,
                   dispatchVars, codecVars>>

\* A caller calls a method of the server object.
CallMethod(name, key, data) ==
    /\ kpc = "idle"
    /\ kpc' = "done"
    /\ kcall' = [name |-> name, key |-> key, data |-> data]
    /\ kresult' = MethodResult(name)
    /\ asked' = Asked(name, key, data)
    /\ UNCHANGED <<enable_caching, ktime, limiterVars, clientVars,
                   dispatchVars, codecVars>>

\* The caller has the result.
MethodReturns ==
    /\ kpc = "done"
    /\ kpc' = "idle"
    /\ kcall' = NoMethodCall
    /\ kresult' = NoMethodResult
    /\ UNCHANGED <<enable_caching, asked, ktime, limiterVars, clientVars,
                   dispatchVars, codecVars>>

\* time.time() advances between calls.
CacheTick ==
    /\ kpc = "idle"
    /\ ktime < MaxTime
    /\ ktime' = ktime + 1
    /\ UNCHANGED <<kpc, enable_caching, kcall, kresult, asked, limiterVars,
                   clientVars, dispatchVars, codecVars>>

InitCache == InitClient

NextCache ==
    \/ \E flag \in BOOLEAN : NewServer(flag)
    \/ \E name \in CalledMethods, key \in CacheKeys, data \in CacheData :
           CallMethod(name, key, data)
    \/ MethodReturns
    \/ CacheTick

SpecCache == InitCache /\ [][NextCache]_vars

\* C21: with caching enabled, a lookup of a key returns the value last
\* stored under it while less than the TTL has passed since it was stored
\* and the cache was not cleared since; a lookup of a key never stored,
\* cleared, or stored more than the TTL ago returns nothing.
C21_CachedUntilTtl ==
    (kpc = "done" /\ enable_caching /\ kcall.name = "_get_from_cache") =>
        LET a == asked[kcall.key] IN
        IF a # None /\ ktime - a[1].at < CacheTtl
        THEN kresult = [kind |-> "return", exc |-> "", data |-> Some(a[1].data)]
        ELSE (a = None \/ ktime - a[1].at > CacheTtl)
                 => kresult = [kind |-> "return", exc |-> "", data |-> None]

====
